---- MODULE Spec2Model ----
(***************************************************************************)
(* Model of the two release-automation scripts of the emoji repository:    *)
(*   scripts/findChanges.ts  - the release-note / change-detector tool     *)
(*   scripts/generatePNGs.ts - the raster conversion tool                  *)
(* Strings are TLA+ strings; the JavaScript string methods the scripts use *)
(* are computed character by character.                                    *)
(***************************************************************************)
EXTENDS Integers, Sequences, FiniteSets, TLC

VARIABLES
    \* ---- findChanges.ts ----
    pc,            \* position of run(): start, compare, mkdir, copy, finish, done, failed
    GITHUB_REF,    \* process.env.GITHUB_REF
    error,         \* the call whose failure ended run(), "none" while there is none
    releases,      \* data of the listReleases response
    compareCalls,  \* the compareCommits calls issued, in order
    changes,       \* data of the compareCommits response
    changedSvgs,   \* run(): changedSvgs
    changedEmojis, \* run(): changedEmojis
    contributors,  \* run(): contributors
    outputs,       \* the setOutput calls made, in order
    madeDirs,      \* directories created by fs.mkdirSync
    copied,        \* number of iterations of changedSvgs.forEach completed
    updatesDir,    \* files on disk written by fs.copyFileSync: path -> source
    \* ---- generatePNGs.ts ----
    gpc,              \* position of run(): start, render, write, log, done, failed
    listing,          \* fs.readdirSync of every input directory
    directories,      \* argv.directories
    size,             \* argv.size
    generationParams, \* run(): generationParams
    job,              \* index of the job the for loop is at
    promise,          \* state of the promise svg2img returned for that job
    renders,          \* jobs handed to the rendering engine, in order
    engineErrors,     \* jobs for which the rendering engine reported an error
    pngWrites,        \* jobs whose PNG fs.writeFileSync has written, in order
    pngDirs,          \* directories created by getParamsForSvgs
    progressLog       \* progress.log lines

notesVars == <<pc, GITHUB_REF, error, releases, compareCalls, changes, changedSvgs, changedEmojis,
               contributors, outputs, madeDirs, copied, updatesDir>>
pngVars == <<gpc, listing, directories, size, generationParams, job, promise,
             renders, engineErrors, pngWrites, pngDirs, progressLog>>
vars == <<notesVars, pngVars>>

-----------------------------------------------------------------------------
(* Bounds of the model *)

\* A comparison holds at most MaxChanges files and commits together.
MaxChanges == 3
\* An input directory holds at most MaxDirFiles files.
MaxDirFiles == 2

-----------------------------------------------------------------------------
(* JavaScript helpers *)

Min(S) == CHOOSE x \in S : \A y \in S : x <= y
Max(S) == CHOOSE x \in S : \A y \in S : x >= y

\* Array.prototype.join
RECURSIVE Join(_, _)
Join(s, sep) ==
    IF s = <<>> THEN ""
    ELSE IF Len(s) = 1 THEN s[1]
    ELSE s[1] \o sep \o Join(Tail(s), sep)

\* positions (1-based) at which pat occurs in str
Occurrences(str, pat) ==
    { i \in 1..(Len(str) - Len(pat) + 1) : SubSeq(str, i, i + Len(pat) - 1) = pat }

\* String.prototype.indexOf (0-based, -1 when absent)
IndexOf(str, pat) ==
    IF Occurrences(str, pat) = {} THEN -1 ELSE Min(Occurrences(str, pat)) - 1

\* String.prototype.lastIndexOf (0-based, -1 when absent)
LastIndexOf(str, pat) ==
    IF Occurrences(str, pat) = {} THEN -1 ELSE Max(Occurrences(str, pat)) - 1

\* String.prototype.endsWith
EndsWith(str, suffix) ==
    /\ Len(str) >= Len(suffix)
    /\ SubSeq(str, Len(str) - Len(suffix) + 1, Len(str)) = suffix

\* String.prototype.startsWith
StartsWith(str, prefix) ==
    /\ Len(str) >= Len(prefix)
    /\ SubSeq(str, 1, Len(prefix)) = prefix

\* String.prototype.slice(start): a negative start counts from the end
Slice(str, start) ==
    LET from == IF start < 0 THEN (IF Len(str) + start < 0 THEN 0 ELSE Len(str) + start)
                ELSE start
    IN  SubSeq(str, from + 1, Len(str))

\* String.prototype.replace with a string pattern: the first occurrence only
Replace(str, pat, by) ==
    LET i == IndexOf(str, pat)
    IN  IF i = -1 THEN str
        ELSE SubSeq(str, 1, i) \o by \o SubSeq(str, i + Len(pat) + 1, Len(str))

\* String.prototype.split with a one-character separator: the pieces between
\* the occurrences of sep (at), in order
RECURSIVE SplitAt(_, _, _)
SplitAt(str, at, from) ==
    LET rest == { i \in at : i >= from }
    IN  IF rest = {} THEN <<SubSeq(str, from, Len(str))>>
        ELSE <<SubSeq(str, from, Min(rest) - 1)>> \o SplitAt(str, at, Min(rest) + 1)
Split(str, sep) == SplitAt(str, Occurrences(str, sep), 1)

\* path.resolve('.', ...) and path.join: segments joined by '/', repeated and
\* trailing separators dropped
Cwd == "/w"
PathJoin(segments) ==
    LET parts == SelectSeq(Split(Join(segments, "/"), "/"), LAMBDA p : p # "")
    IN  (IF StartsWith(segments[1], "/") THEN "/" ELSE "") \o Join(parts, "/")
PathResolve(segments) == PathJoin(<<Cwd>> \o segments)

-----------------------------------------------------------------------------
(* findChanges.ts: module-level values *)

\* context.repo
Owner == "olivvybee"
Repo == "emojis"

tagName == Replace(GITHUB_REF, "refs/tags/", "")
normalisedTagName == Join(Split(tagName, "/"), "-")
repoUrl == "https://github.com/" \o Owner \o "/" \o Repo
previewUrl ==
    repoUrl \o "/releases/download/" \o tagName \o "/preview-updates-"
            \o normalisedTagName \o ".png"

\* enum ChangeType
Added == "Added"
Updated == "Updated"

-----------------------------------------------------------------------------
(* findChanges.ts: buildRelaseNotes *)

\* the back quote character (a lone back quote cannot be written in a string literal)
Backquote == SubSeq("`'", 1, 1)

EmojiBullets(emojis) ==
    Join([i \in 1..Len(emojis) |-> "- " \o Backquote \o emojis[i].name \o Backquote], "\n")

NewEmojis(emojis) == EmojiBullets(SelectSeq(emojis, LAMBDA e : e.change = Added))

\* faulty variant: the heading is rendered also when there is no new emoji
NewSection_Unconditional(emojis) == "### New\n\n" \o NewEmojis(emojis) \o "\n"

NewSection(emojis) ==
    IF Len(NewEmojis(emojis)) # 0 THEN "### New\n\n" \o NewEmojis(emojis) \o "\n" ELSE ""

\* faulty variant: the filter of the New subsection, copied unchanged
UpdatedEmojis_FiltersAdded(emojis) ==
    EmojiBullets(SelectSeq(emojis, LAMBDA e : e.change = Added))

UpdatedEmojis(emojis) == EmojiBullets(SelectSeq(emojis, LAMBDA e : e.change = Updated))

UpdatedSection(emojis) ==
    IF Len(UpdatedEmojis(emojis)) # 0
    THEN "### Updated\n\n" \o UpdatedEmojis(emojis) \o "\n"
    ELSE ""

ContributorList(authors) ==
    IF Len(authors) # 0
    THEN Join([i \in 1..Len(authors) |->
                  "- [" \o authors[i].login \o "](" \o authors[i].html_url \o ")"], "\n")
    ELSE ""

ContributorsSection(authors) ==
    IF Len(authors) # 0
    THEN "\n## Contributors to this release\n\n" \o ContributorList(authors) \o "\n\n"
    ELSE ""

EmojisBody(emojis) ==
    IF Len(emojis) # 0
    THEN "![A grid of the emojis that were new or updated in this release]("
         \o previewUrl \o ")\n  \n" \o NewSection(emojis) \o "\n\n"
         \o UpdatedSection(emojis) \o "\n"
    ELSE "None."

buildRelaseNotes(changeList, emojis, authors) ==
    "\n## New and updated emojis in this release\n\n"
    \o EmojisBody(emojis)
    \o "\n*See the [README](" \o repoUrl \o ") for usage instructions.*\n\n"
    \o ContributorsSection(authors)
    \o "\n<details>\n<summary>\n<h2>All changes in this release</h2>\n</summary>\n\n"
    \o changeList
    \o "\n</details>\n"

-----------------------------------------------------------------------------
(* findChanges.ts: the computations of run *)

\* faulty variant: the prerelease filter is left out
NonPrereleaseReleases_Unfiltered(list) == list

NonPrereleaseReleases(list) == SelectSeq(list, LAMBDA release : ~release.prerelease)

\* changes.files || []
Files(data) == IF data.hasFiles THEN data.files ELSE <<>>

\* faulty variant: removed files are kept
SvgChanges_KeepsRemoved(files) ==
    SelectSeq(files, LAMBDA file : EndsWith(file.filename, ".svg"))

SvgChanges(files) ==
    SelectSeq(files, LAMBDA file : EndsWith(file.filename, ".svg") /\ file.status # "removed")

ChangedSvgs(svgChanges) == [i \in 1..Len(svgChanges) |-> svgChanges[i].filename]

CommitMessages(commits) == [i \in 1..Len(commits) |-> commits[i].commit.message]

ChangeList(commitMessages) ==
    Join([i \in 1..Len(commitMessages) |-> "- " \o Split(commitMessages[i], "\n")[1]], "\n")

EmojiName(filePath) == Replace(Slice(filePath, LastIndexOf(filePath, "/") + 1), ".svg", "")

\* faulty variant: every status but 'modified' counts as added
EmojiChangeType_NotModified(filePath, svgChanges) ==
    IF \E i \in 1..Len(svgChanges) :
          svgChanges[i].filename = filePath /\ svgChanges[i].status # "modified"
    THEN Added
    ELSE Updated

EmojiChangeType(filePath, svgChanges) ==
    IF \E i \in 1..Len(svgChanges) :
          svgChanges[i].filename = filePath /\ svgChanges[i].status = "added"
    THEN Added
    ELSE Updated

ChangedEmojis(svgs, svgChanges) ==
    [i \in 1..Len(svgs) |->
        [name |-> EmojiName(svgs[i]), change |-> EmojiChangeType(svgs[i], svgChanges)]]

\* commit.author is null when the commit's author is no account of the service
NullAuthor == [null |-> TRUE]
IsNull(author) == "null" \in DOMAIN author

\* faulty variant: the reducer keeps every author
Unique_KeepsAll(unique, rest) == unique \o rest

\* the reducer: keeps the first author of each login
RECURSIVE Unique(_, _)
Unique(unique, rest) ==
    IF rest = <<>> THEN unique
    ELSE IF \E i \in 1..Len(unique) : unique[i].login = Head(rest).login
         THEN Unique(unique, Tail(rest))
         ELSE Unique(Append(unique, Head(rest)), Tail(rest))

Contributors(commits) ==
    LET authors == [i \in 1..Len(commits) |-> commits[i].author]
        present == SelectSeq(authors, LAMBDA author : ~IsNull(author))
        others == SelectSeq(present, LAMBDA author : author.login # "olivvybee")
    IN  Unique(<<>>, others)

changesDir == PathResolve(<<"updates-" \o normalisedTagName>>)

\* the destination of one iteration of changedSvgs.forEach
DestPath(filePath) == PathJoin(<<changesDir, Slice(filePath, LastIndexOf(filePath, "/"))>>)
SrcPath(filePath) == PathResolve(<<filePath>>)

Output(name, value) == [name |-> name, value |-> value]

-----------------------------------------------------------------------------
(* findChanges.ts: what the environment and the hosting service supply *)

\* the sequences over S of length n, and of length at most n
SeqsOfLen(S, n) == [1..n -> S]
SeqsUpTo(S, n) == UNION { SeqsOfLen(S, k) : k \in 0..n }

Refs == {"refs/tags/emoji/v3"}

Releases ==
    { [tag_name |-> "v2", prerelease |-> FALSE],
      [tag_name |-> "v3-rc", prerelease |-> TRUE] }

\* listReleases returns each release once, in any order
ReleaseLists ==
    { r \in SeqsUpTo(Releases, Cardinality(Releases)) :
        \A i, j \in 1..Len(r) : r[i] = r[j] => i = j }

Paths == {"a.svg", "d/b.svg", "e/b.svg", "d/c.png"}
Statuses == {"added", "modified", "removed", "renamed"}
DiffFiles == [filename : Paths, status : Statuses]

\* a comparison reports each changed path once
FileLists(n) ==
    { f \in SeqsOfLen(DiffFiles, n) :
        \A i, j \in 1..n : f[i].filename = f[j].filename => i = j }

Account(login) == [login |-> login, html_url |-> "https://github.com/" \o login]
Authors == {NullAuthor, Account("olivvybee"), Account("alice"), Account("bob")}
Commit(message, author) == [commit |-> [message |-> message], author |-> author]
Commits ==
    { Commit("Fix bug\n\nlonger body", NullAuthor),
      Commit("Add feature", Account("olivvybee")),
      Commit("Add feature", Account("alice")),
      Commit("Fix bug\n\nlonger body", Account("bob")) }

\* the data of a compareCommits response: files may be absent
Comparisons ==
    UNION { { [hasFiles |-> TRUE, files |-> f, commits |-> c] :
                f \in FileLists(n), c \in SeqsUpTo(Commits, MaxChanges - n) }
            : n \in 0..MaxChanges }
    \cup { [hasFiles |-> FALSE, files |-> <<>>, commits |-> c] :
             c \in SeqsUpTo(Commits, MaxChanges) }

NoComparison == [hasFiles |-> FALSE, files |-> <<>>, commits |-> <<>>]

-----------------------------------------------------------------------------
(* findChanges.ts: run *)

NotesInit ==
    /\ pc = "start"
    /\ GITHUB_REF \in Refs
    /\ error = "none"
    /\ releases = <<>>
    /\ compareCalls = <<>>
    /\ changes = NoComparison
    /\ changedSvgs = <<>>
    /\ changedEmojis = <<>>
    /\ contributors = <<>>
    /\ outputs = <<>>
    /\ madeDirs = {}
    /\ copied = 0
    /\ updatesDir = <<>>

\* the tool is not run
NotesIdle ==
    /\ pc = "idle"
    /\ GITHUB_REF = "refs/tags/emoji/v3"
    /\ error = "none"
    /\ releases = <<>>
    /\ compareCalls = <<>>
    /\ changes = NoComparison
    /\ changedSvgs = <<>>
    /\ changedEmojis = <<>>
    /\ contributors = <<>>
    /\ outputs = <<>>
    /\ madeDirs = {}
    /\ copied = 0
    /\ updatesDir = <<>>

\* listReleases resolves: lines 112-129, up to the await of compareCommits
ListReleasesReturns ==
    /\ pc = "start"
    /\ \E data \in ReleaseLists :
         LET nonPrereleaseReleases == NonPrereleaseReleases(data)
         IN  /\ releases' = data
             /\ IF Len(nonPrereleaseReleases) = 0
                THEN /\ outputs' = Append(outputs, Output("hasSvgChanges", "false"))
                     /\ pc' = "done"
                     /\ UNCHANGED compareCalls
                ELSE /\ compareCalls' = Append(compareCalls,
                           [base |-> nonPrereleaseReleases[1].tag_name, head |-> GITHUB_REF])
                     /\ pc' = "compare"
                     /\ UNCHANGED outputs
    /\ UNCHANGED <<GITHUB_REF, error, changes, changedSvgs, changedEmojis, contributors,
                   madeDirs, copied, updatesDir>>
    /\ UNCHANGED pngVars

\* listReleases rejects: run's promise rejects
ListReleasesFails ==
    /\ pc = "start"
    /\ pc' = "failed"
    /\ error' = "listReleases"
    /\ UNCHANGED <<GITHUB_REF, releases, compareCalls, changes, changedSvgs, changedEmojis,
                   contributors, outputs, madeDirs, copied, updatesDir>>
    /\ UNCHANGED pngVars

\* compareCommits resolves: lines 131-175
CompareCommitsReturns ==
    /\ pc = "compare"
    /\ \E data \in Comparisons :
         LET files == Files(data)
             svgChanges == SvgChanges(files)
             svgs == ChangedSvgs(svgChanges)
             changeList == ChangeList(CommitMessages(data.commits))
             emojis == ChangedEmojis(svgs, svgChanges)
             authors == Contributors(data.commits)
             releaseNotes == buildRelaseNotes(changeList, emojis, authors)
         IN  /\ changes' = data
             /\ changedSvgs' = svgs
             /\ changedEmojis' = emojis
             /\ contributors' = authors
             /\ IF Len(svgs) = 0
                THEN /\ outputs' = outputs \o <<Output("releaseNotes", releaseNotes),
                                                Output("hasSvgChanges", "false")>>
                     /\ pc' = "done"
                ELSE /\ outputs' = Append(outputs, Output("releaseNotes", releaseNotes))
                     /\ pc' = "mkdir"
    /\ UNCHANGED <<GITHUB_REF, error, releases, compareCalls, madeDirs, copied, updatesDir>>
    /\ UNCHANGED pngVars

\* compareCommits rejects
CompareCommitsFails ==
    /\ pc = "compare"
    /\ pc' = "failed"
    /\ error' = "compareCommits"
    /\ UNCHANGED <<GITHUB_REF, releases, compareCalls, changes, changedSvgs, changedEmojis,
                   contributors, outputs, madeDirs, copied, updatesDir>>
    /\ UNCHANGED pngVars

\* fs.mkdirSync(changesDir, { recursive: true })
MkdirChangesDir ==
    /\ pc = "mkdir"
    /\ madeDirs' = madeDirs \cup {changesDir}
    /\ pc' = "copy"
    /\ UNCHANGED <<GITHUB_REF, error, releases, compareCalls, changes, changedSvgs, changedEmojis,
                   contributors, outputs, copied, updatesDir>>
    /\ UNCHANGED pngVars

\* fs.mkdirSync throws
MkdirFails ==
    /\ pc = "mkdir"
    /\ pc' = "failed"
    /\ error' = "mkdirSync"
    /\ UNCHANGED <<GITHUB_REF, releases, compareCalls, changes, changedSvgs, changedEmojis,
                   contributors, outputs, madeDirs, copied, updatesDir>>
    /\ UNCHANGED pngVars

\* one iteration of changedSvgs.forEach: fs.copyFileSync overwrites destPath
CopyFile ==
    /\ pc = "copy"
    /\ copied < Len(changedSvgs)
    /\ LET filePath == changedSvgs[copied + 1]
       IN  updatesDir' = (DestPath(filePath) :> SrcPath(filePath)) @@ updatesDir
    /\ copied' = copied + 1
    /\ UNCHANGED <<pc, GITHUB_REF, error, releases, compareCalls, changes, changedSvgs, changedEmojis,
                   contributors, outputs, madeDirs>>
    /\ UNCHANGED pngVars

\* fs.copyFileSync throws: forEach and run end there
CopyFails ==
    /\ pc = "copy"
    /\ copied < Len(changedSvgs)
    /\ pc' = "failed"
    /\ error' = "copyFileSync"
    /\ UNCHANGED <<GITHUB_REF, releases, compareCalls, changes, changedSvgs, changedEmojis,
                   contributors, outputs, madeDirs, copied, updatesDir>>
    /\ UNCHANGED pngVars

\* faulty variant: setOutput('hasSvgChanges', true) is called before the copies are done
SetHasSvgChanges_BeforeCopies ==
    /\ pc = "copy"
    /\ outputs' = Append(outputs, Output("hasSvgChanges", "true"))
    /\ pc' = "done"
    /\ UNCHANGED <<GITHUB_REF, error, releases, compareCalls, changes, changedSvgs,
                   changedEmojis, contributors, madeDirs, copied, updatesDir>>
    /\ UNCHANGED pngVars

\* after the last iteration: setOutput('hasSvgChanges', true)
SetHasSvgChanges ==
    /\ pc = "copy"
    /\ copied = Len(changedSvgs)
    /\ outputs' = Append(outputs, Output("hasSvgChanges", "true"))
    /\ pc' = "done"
    /\ UNCHANGED <<GITHUB_REF, error, releases, compareCalls, changes, changedSvgs, changedEmojis,
                   contributors, madeDirs, copied, updatesDir>>
    /\ UNCHANGED pngVars

-----------------------------------------------------------------------------
(* generatePNGs.ts: module-level values *)

DEFAULT_SIZE == 256

\* the entries of the working directory, as fs.readdirSync and fs.statSync give them
TopLevel ==
    << [name |-> ".git", isDirectory |-> TRUE],
       [name |-> "README.md", isDirectory |-> FALSE],
       [name |-> "d", isDirectory |-> TRUE],
       [name |-> "e", isDirectory |-> TRUE],
       [name |-> "node_modules", isDirectory |-> TRUE],
       [name |-> "png", isDirectory |-> TRUE],
       [name |-> "scripts", isDirectory |-> TRUE] >>

gitignoreItems == Split("node_modules\npng\n", "\n")

ALL_DIRECTORIES ==
    LET dirs == SelectSeq(TopLevel, LAMBDA entry : entry.isDirectory)
        kept == SelectSeq(dirs, LAMBDA entry :
                    \A i \in 1..Len(gitignoreItems) : gitignoreItems[i] # entry.name)
        named == SelectSeq(kept, LAMBDA entry :
                    ~StartsWith(entry.name, ".") /\ entry.name # "scripts")
    IN  [i \in 1..Len(named) |-> named[i].name]

-----------------------------------------------------------------------------
(* generatePNGs.ts: svg2img, getParamsForSvgs *)

\* new Promise: a settled promise stays as it is
Reject(state) == IF state = "pending" THEN "rejected" ELSE state
Resolve(state) == IF state = "pending" THEN "fulfilled" ELSE state

\* faulty variant: resolve(buffer) is called before the error is looked at
svg2imgCallback_ResolvesFirst(state, err) ==
    IF err THEN Reject(Resolve(state)) ELSE Resolve(state)

\* the callback handed to svg2imgWithCallback: reject(err) does not return, so
\* resolve(buffer) is called after it
svg2imgCallback(state, err) == Resolve(IF err THEN Reject(state) ELSE state)

getParamsForSvgs(files, svgDir, pngDir, width) ==
    LET svgs == SelectSeq(files, LAMBDA filename : EndsWith(filename, ".svg"))
    IN  [i \in 1..Len(svgs) |->
            [svgPath |-> PathJoin(<<svgDir, svgs[i]>>),
             pngPath |-> PathJoin(<<pngDir, Replace(svgs[i], ".svg", ".png")>>),
             size |-> width]]

\* directories.flatMap
RECURSIVE GenerationParams(_, _, _)
GenerationParams(dirs, files, width) ==
    IF dirs = <<>> THEN <<>>
    ELSE getParamsForSvgs(files[Head(dirs)], PathResolve(<<Head(dirs)>>),
                          PathResolve(<<"png", Head(dirs)>>), width)
         \o GenerationParams(Tail(dirs), files, width)

-----------------------------------------------------------------------------
(* generatePNGs.ts: what the command line and the file system supply *)

Range(seq) == { seq[i] : i \in 1..Len(seq) }

\* yargs: --directories takes the choices ALL_DIRECTORIES, the default is all of them
DirectoryArgs ==
    { d \in SeqsUpTo(Range(ALL_DIRECTORIES), Len(ALL_DIRECTORIES)) :
        /\ d # <<>>
        /\ \A i, j \in 1..Len(d) : d[i] = d[j] => i = j }

Sizes == {DEFAULT_SIZE, 64}

FileNames == {"a.svg", "b.svg.svg", "c.png"}

\* fs.readdirSync names each file of a directory once
Listings ==
    { l \in SeqsUpTo(FileNames, MaxDirFiles) :
        \A i, j \in 1..Len(l) : l[i] = l[j] => i = j }

-----------------------------------------------------------------------------
(* generatePNGs.ts: run *)

PngInit ==
    /\ gpc = "start"
    /\ listing \in [Range(ALL_DIRECTORIES) -> Listings]
    /\ directories \in DirectoryArgs
    /\ size \in Sizes
    /\ generationParams = <<>>
    /\ job = 0
    /\ promise = "none"
    /\ renders = <<>>
    /\ engineErrors = {}
    /\ pngWrites = <<>>
    /\ pngDirs = {}
    /\ progressLog = <<>>

\* the tool is not run
PngIdle ==
    /\ gpc = "idle"
    /\ listing = <<>>
    /\ directories = <<>>
    /\ size = 0
    /\ generationParams = <<>>
    /\ job = 0
    /\ promise = "none"
    /\ renders = <<>>
    /\ engineErrors = {}
    /\ pngWrites = <<>>
    /\ pngDirs = {}
    /\ progressLog = <<>>

\* lines 78-85: the jobs of every directory, the output directories created
PlanJobs ==
    /\ gpc = "start"
    /\ generationParams' = GenerationParams(directories, listing, size)
    /\ pngDirs' = pngDirs \cup { PathResolve(<<"png", dir>>) : dir \in Range(directories) }
    /\ job' = 1
    /\ gpc' = "next"
    /\ UNCHANGED <<listing, directories, size, promise, renders, engineErrors, pngWrites,
                   progressLog>>
    /\ UNCHANGED notesVars

\* the for loop takes the next job: generate calls svg2img
StartJob ==
    /\ gpc = "next"
    /\ job <= Len(generationParams)
    /\ renders' = Append(renders, job)
    /\ promise' = "pending"
    /\ gpc' = "render"
    /\ UNCHANGED <<listing, directories, size, generationParams, job, engineErrors,
                   pngWrites, pngDirs, progressLog>>
    /\ UNCHANGED notesVars

\* the rendering engine calls back with a buffer
EngineReturnsBuffer ==
    /\ gpc = "render"
    /\ promise' = svg2imgCallback(promise, FALSE)
    /\ gpc' = "settled"
    /\ UNCHANGED <<listing, directories, size, generationParams, job, renders,
                   engineErrors, pngWrites, pngDirs, progressLog>>
    /\ UNCHANGED notesVars

\* the rendering engine calls back with an error
EngineReportsError ==
    /\ gpc = "render"
    /\ promise' = svg2imgCallback(promise, TRUE)
    /\ engineErrors' = engineErrors \cup {job}
    /\ gpc' = "settled"
    /\ UNCHANGED <<listing, directories, size, generationParams, job, renders,
                   pngWrites, pngDirs, progressLog>>
    /\ UNCHANGED notesVars

\* await svg2img(...) resumes generate: fs.writeFileSync(pngPath, buffer)
WritePng ==
    /\ gpc = "settled"
    /\ promise = "fulfilled"
    /\ pngWrites' = Append(pngWrites, job)
    /\ gpc' = "written"
    /\ UNCHANGED <<listing, directories, size, generationParams, job, promise, renders,
                   engineErrors, pngDirs, progressLog>>
    /\ UNCHANGED notesVars

\* fs.writeFileSync throws: generate and run reject
WritePngFails ==
    /\ gpc = "settled"
    /\ promise = "fulfilled"
    /\ gpc' = "failed"
    /\ UNCHANGED <<listing, directories, size, generationParams, job, promise, renders,
                   engineErrors, pngWrites, pngDirs, progressLog>>
    /\ UNCHANGED notesVars

\* await svg2img(...) throws in generate: generate and run reject
GenerateRejects ==
    /\ gpc = "settled"
    /\ promise = "rejected"
    /\ gpc' = "failed"
    /\ UNCHANGED <<listing, directories, size, generationParams, job, promise, renders,
                   engineErrors, pngWrites, pngDirs, progressLog>>
    /\ UNCHANGED notesVars

\* await generate(params) resumes run: progress.log, progressBar.increment
LogProgress ==
    /\ gpc = "written"
    /\ LET params == generationParams[job]
           svgName == Split(params.svgPath, "/")[Len(Split(params.svgPath, "/"))]
           pngName == Split(params.pngPath, "/")[Len(Split(params.pngPath, "/"))]
       IN  progressLog' = Append(progressLog, svgName \o " -> " \o pngName \o "\n")
    /\ job' = job + 1
    /\ gpc' = "next"
    /\ UNCHANGED <<listing, directories, size, generationParams, promise, renders,
                   engineErrors, pngWrites, pngDirs>>
    /\ UNCHANGED notesVars

\* the for loop ends: progress.remove, progress.stop
StopProgress ==
    /\ gpc = "next"
    /\ job > Len(generationParams)
    /\ gpc' = "done"
    /\ UNCHANGED <<listing, directories, size, generationParams, job, promise, renders,
                   engineErrors, pngWrites, pngDirs, progressLog>>
    /\ UNCHANGED notesVars

PngNext ==
    \/ PlanJobs
    \/ StartJob
    \/ EngineReturnsBuffer
    \/ EngineReportsError
    \/ WritePng
    \/ WritePngFails
    \/ GenerateRejects
    \/ LogProgress
    \/ StopProgress

PngSpecInit == NotesIdle /\ PngInit

PngSpec == PngSpecInit /\ [][PngNext]_vars

Init == NotesInit /\ PngIdle

Next ==
    \/ ListReleasesReturns
    \/ ListReleasesFails
    \/ CompareCommitsReturns
    \/ CompareCommitsFails
    \/ MkdirChangesDir
    \/ MkdirFails
    \/ CopyFile
    \/ CopyFails
    \/ SetHasSvgChanges

Spec == Init /\ [][Next]_vars

\* run up to setOutput('releaseNotes', ...): the service answers, nothing is staged
RenderNext ==
    \/ ListReleasesReturns
    \/ CompareCommitsReturns

RenderSpec == Init /\ [][RenderNext]_vars

-----------------------------------------------------------------------------
(* Reading the outputs and the rendered release notes *)

OutputValues(name) ==
    LET named == SelectSeq(outputs, LAMBDA o : o.name = name)
    IN  [i \in 1..Len(named) |-> named[i].value]

HasReleaseNotes == OutputValues("releaseNotes") # <<>>
ReleaseNotes == OutputValues("releaseNotes")[1]
NotesLines == Split(ReleaseNotes, "\n")

\* index of the first line equal to line, 0 when there is none
LineIndex(lines, line) ==
    IF \E i \in 1..Len(lines) : lines[i] = line
    THEN Min({ i \in 1..Len(lines) : lines[i] = line })
    ELSE 0

\* index of the first line after from that is a heading, a footer or a tag
NextBreak(lines, from) ==
    LET breaks == { i \in (from + 1)..Len(lines) :
                       \/ StartsWith(lines[i], "#")
                       \/ StartsWith(lines[i], "*See the [README]")
                       \/ StartsWith(lines[i], "<") }
    IN  IF breaks = {} THEN Len(lines) + 1 ELSE Min(breaks)

\* the non-blank lines under the heading, up to the next heading, footer or tag
RECURSIVE NonBlank(_)
NonBlank(lines) ==
    IF lines = <<>> THEN <<>>
    ELSE (IF Head(lines) = "" THEN <<>> ELSE <<Head(lines)>>) \o NonBlank(Tail(lines))

SectionBody(lines, heading) ==
    LET at == LineIndex(lines, heading)
    IN  NonBlank(SubSeq(lines, at + 1, NextBreak(lines, at) - 1))

IsAsset(file) == EndsWith(file.filename, ".svg") /\ file.status # "removed"

EmojisHeading == "## New and updated emojis in this release"

-----------------------------------------------------------------------------
(* Properties of findChanges.ts *)

NoPriorRelease ==
    /\ pc # "start"
    /\ error # "listReleases"
    /\ \A i \in 1..Len(releases) : releases[i].prerelease

(* C1: when the release list holds no release with prerelease = FALSE (also when
   it is empty), run sets hasSvgChanges to false, issues no compareCommits call,
   copies no file and finishes normally. *)
C1_NoPriorReleaseShortCircuits ==
    NoPriorRelease =>
        /\ pc = "done"
        /\ error = "none"
        /\ outputs = <<Output("hasSvgChanges", "false")>>
        /\ compareCalls = <<>>
        /\ copied = 0
        /\ updatesDir = <<>>

C1_Witness == NoPriorRelease /\ Len(releases) > 0 /\ pc = "done"

NoAssetChanges ==
    /\ HasReleaseNotes
    /\ \A i \in 1..Len(Files(changes)) : ~IsAsset(Files(changes)[i])

(* C2: when no file of the diff both ends in '.svg' and has a status other than
   'removed', hasSvgChanges is set to false and the body of the 'New and updated
   emojis in this release' section is exactly the text 'None.'. *)
C2_NoAssetChangesRendersNone ==
    NoAssetChanges =>
        LET lines == NotesLines
        IN  /\ OutputValues("hasSvgChanges") = <<"false">>
            /\ SectionBody(lines, EmojisHeading) = <<"None.">>
            /\ LineIndex(lines, "### New") = 0
            /\ LineIndex(lines, "### Updated") = 0
            /\ Occurrences(ReleaseNotes, "![") = {}

C2_Witness ==
    /\ NoAssetChanges
    /\ \E i \in 1..Len(Files(changes)) :
          EndsWith(Files(changes)[i].filename, ".svg")

Bullet(name) == "- " \o Backquote \o name \o Backquote

EntriesOf(kind) ==
    LET entries == SelectSeq(changedEmojis, LAMBDA e : e.change = kind)
    IN  [i \in 1..Len(entries) |-> Bullet(entries[i].name)]

LineCount(lines, line) == Cardinality({ i \in 1..Len(lines) : lines[i] = line })

HasAddedAndUpdated ==
    /\ HasReleaseNotes
    /\ \E i \in 1..Len(changedEmojis) : changedEmojis[i].change = Added
    /\ \E i \in 1..Len(changedEmojis) : changedEmojis[i].change = Updated

(* C3: when the asset-change list holds at least one Added and at least one
   Updated entry, the notes hold one '### New' and one '### Updated' subsection;
   the New subsection lists exactly the Added entries and the Updated subsection
   exactly the Updated entries, one back-quoted bullet per line, in input order. *)
C3_BothSubsectionsListTheirEntries ==
    HasAddedAndUpdated =>
        LET lines == NotesLines
            new == LineIndex(lines, "### New")
            updated == LineIndex(lines, "### Updated")
        IN  /\ LineCount(lines, "### New") = 1
            /\ LineCount(lines, "### Updated") = 1
            /\ LineIndex(lines, EmojisHeading) < new
            /\ new < updated
            /\ SectionBody(lines, "### New") = EntriesOf(Added)
            /\ SectionBody(lines, "### Updated") = EntriesOf(Updated)

C3_Witness ==
    /\ HasAddedAndUpdated
    /\ \E i, j \in 1..Len(changedEmojis) :
          /\ i < j
          /\ changedEmojis[i].change = changedEmojis[j].change
          /\ changedEmojis[i].name # changedEmojis[j].name

OnlyEntriesOf(kind) ==
    /\ HasReleaseNotes
    /\ changedEmojis # <<>>
    /\ \A i \in 1..Len(changedEmojis) : changedEmojis[i].change = kind

(* C4: for a non-empty asset-change list with only Updated entries '### New'
   occurs nowhere in the notes; with only Added entries '### Updated' occurs
   nowhere. *)
C4_EmptySubsectionOmitted ==
    /\ OnlyEntriesOf(Updated) =>
          /\ Occurrences(ReleaseNotes, "### New") = {}
          /\ Cardinality(Occurrences(ReleaseNotes, "\n### Updated\n")) = 1
    /\ OnlyEntriesOf(Added) =>
          /\ Occurrences(ReleaseNotes, "### Updated") = {}
          /\ Cardinality(Occurrences(ReleaseNotes, "\n### New\n")) = 1

C4_Witness == OnlyEntriesOf(Updated) /\ Len(changedEmojis) >= 2

AuthorLogins ==
    { changes.commits[k].author.login :
        k \in { c \in 1..Len(changes.commits) : ~IsNull(changes.commits[c].author) } }

FirstCommitBy(login) ==
    Min({ k \in 1..Len(changes.commits) :
            /\ ~IsNull(changes.commits[k].author)
            /\ changes.commits[k].author.login = login })

ContributorsHeading == "## Contributors to this release"

(* C5: the contributor list never holds the login 'olivvybee', holds no login
   twice, holds every other login that authored a commit with a non-null author,
   is ordered by first occurrence in the commit list, and is what the
   'Contributors to this release' section renders. *)
C5_ContributorsDistinctWithoutMaintainer ==
    HasReleaseNotes =>
        /\ \A i \in 1..Len(contributors) : contributors[i].login # "olivvybee"
        /\ \A i, j \in 1..Len(contributors) :
              contributors[i].login = contributors[j].login => i = j
        /\ { contributors[i].login : i \in 1..Len(contributors) }
              = AuthorLogins \ {"olivvybee"}
        /\ \A i, j \in 1..Len(contributors) :
              i < j => FirstCommitBy(contributors[i].login)
                          < FirstCommitBy(contributors[j].login)
        /\ IF contributors = <<>>
           THEN Occurrences(ReleaseNotes, ContributorsHeading) = {}
           ELSE LET lines == NotesLines
                IN SectionBody(lines, ContributorsHeading)
                   = [i \in 1..Len(contributors) |->
                        "- [" \o contributors[i].login \o "]("
                              \o contributors[i].html_url \o ")"]

C5_Witness ==
    /\ HasReleaseNotes
    /\ "olivvybee" \in AuthorLogins
    /\ \E k, l \in 1..Len(changes.commits) :
          /\ k < l
          /\ ~IsNull(changes.commits[k].author)
          /\ changes.commits[k].author = changes.commits[l].author
          /\ changes.commits[k].author.login # "olivvybee"

InChangesDir(path) == StartsWith(path, changesDir \o "/")

(* C7: after a run that completes with at least one changed asset, the directory
   updates-<normalized-tag> holds, for every changed '.svg' path of the diff, a
   file with that asset's content. *)
C7_EveryChangedAssetStaged ==
    (pc = "done" /\ changedSvgs # <<>>) =>
        \A k \in 1..Len(changedSvgs) :
            \E dest \in DOMAIN updatesDir :
                /\ InChangesDir(dest)
                /\ updatesDir[dest] = SrcPath(changedSvgs[k])

AssetFiles == SelectSeq(Files(changes), IsAsset)

(* C9: the asset-change list holds, in diff order, one entry per file whose path
   ends in '.svg' and whose status is not 'removed'; the entry is Added exactly
   when the status of that path is 'added', and Updated otherwise. *)
C9_AssetChangesClassified ==
    HasReleaseNotes =>
        /\ Len(changedEmojis) = Len(AssetFiles)
        /\ Len(changedSvgs) = Len(AssetFiles)
        /\ \A k \in 1..Len(AssetFiles) :
              /\ changedSvgs[k] = AssetFiles[k].filename
              /\ changedEmojis[k].change =
                    (IF AssetFiles[k].status = "added" THEN Added ELSE Updated)

C9_Witness ==
    /\ HasReleaseNotes
    /\ \E i, j, k \in 1..Len(changes.files) :
          /\ changes.files[i].status = "added" /\ IsAsset(changes.files[i])
          /\ changes.files[j].status = "renamed" /\ IsAsset(changes.files[j])
          /\ changes.files[k].status = "removed"
          /\ EndsWith(changes.files[k].filename, ".svg")

OutputIndexes(name, value) ==
    { i \in 1..Len(outputs) : outputs[i] = Output(name, value) }

CopiedSoFar ==
    { DestPath(changedSvgs[k]) : k \in 1..copied }

(* C10: hasSvgChanges is set at most once; it is set to true only after
   releaseNotes has been set and every changed asset has been copied, so never
   in a run in which a call failed; the files copied before a failure stay. *)
C10_HasSvgChangesTrueOnlyAfterStaging ==
    /\ Len(OutputValues("hasSvgChanges")) <= 1
    /\ Len(OutputValues("releaseNotes")) <= 1
    /\ \A i \in OutputIndexes("hasSvgChanges", "true") :
          /\ \E j \in 1..(i - 1) : outputs[j].name = "releaseNotes"
          /\ pc = "done"
          /\ error = "none"
          /\ changedSvgs # <<>>
          /\ copied = Len(changedSvgs)
          /\ changesDir \in madeDirs
          /\ \A k \in 1..Len(changedSvgs) : DestPath(changedSvgs[k]) \in DOMAIN updatesDir
    /\ error # "none" => pc = "failed" /\ OutputIndexes("hasSvgChanges", "true") = {}
    /\ DOMAIN updatesDir = CopiedSoFar

C10_Witness ==
    /\ error = "copyFileSync"
    /\ copied >= 1
    /\ HasReleaseNotes

-----------------------------------------------------------------------------
(* Properties of generatePNGs.ts *)

BaseName(path) == Slice(path, LastIndexOf(path, "/") + 1)
DirName(path) == SubSeq(path, 1, LastIndexOf(path, "/"))

WithPngExtension(base) == SubSeq(base, 1, Len(base) - Len(".svg")) \o ".png"

(* C6: for every conversion job, the destination's base name is the source's
   base name with the trailing '.svg' replaced by '.png', and the destination
   directory is png/<dir> for the source directory <dir>. *)
C6_DestinationMirrorsSource ==
    \A k \in 1..Len(generationParams) :
        LET params == generationParams[k]
        IN  /\ EndsWith(params.svgPath, ".svg")
            /\ BaseName(params.pngPath) = WithPngExtension(BaseName(params.svgPath))
            /\ \E dir \in Range(directories) :
                  /\ DirName(params.svgPath) = Cwd \o "/" \o dir
                  /\ DirName(params.pngPath) = Cwd \o "/png/" \o dir

UpTo(n) == [k \in 1..n |-> k]

(* C8: when the rendering engine reports an error for job i, no PNG is written
   for job i, no later job is rendered or written, and the PNGs of the jobs
   before i stay; jobs start one at a time, job k+1 only after job k has been
   rendered and written. *)
C8_RenderFailureAbortsBatch ==
    /\ \E n \in 0..Len(generationParams) : renders = UpTo(n)
    /\ \E n \in 0..Len(generationParams) : pngWrites = UpTo(n)
    /\ Len(pngWrites) <= Len(renders)
    /\ Len(renders) <= Len(pngWrites) + 1
    /\ \A i \in engineErrors :
          /\ renders = UpTo(i)
          /\ pngWrites = UpTo(i - 1)
          /\ gpc \in {"settled", "failed"}
    /\ gpc = "done" => pngWrites = UpTo(Len(generationParams)) /\ engineErrors = {}

C8_Witness ==
    /\ gpc = "failed"
    /\ \E i \in engineErrors : i >= 2 /\ i < Len(generationParams)

====
